---- MODULE Spec2Model ----
(***************************************************************************)
(* Model of the `sync` subcommand (src/cmd/sync.rs): one invocation of     *)
(* run() walks through kind selection, version resolution, target path     *)
(* resolution, prepare_repo_paths, reference lookup, mirror sync,          *)
(* kind-specific setup and the primary repo_sync.  Every `?` in the code   *)
(* is an exit to the failed state.  The calls the run makes to its         *)
(* collaborators are recorded, in order, in `log`.  Spec is the behaviour   *)
(* of successive `sync` invocations on one target.  SpecSetup is the       *)
(* behaviour of successive `setup` subcommands (src/cmd/setup.rs) on one   *)
(* home directory.                                                         *)
(***************************************************************************)
EXTENDS Integers, Sequences, FiniteSets, TLC

VARIABLES
    args,       \* Args of the current invocation (sync.rs:28-59)
    fs,         \* on-disk state of the target path
    fs0,        \* fs as it was when the current invocation started
    pc,         \* position of the current invocation inside run()
    err,        \* which error the invocation returned ("none" while Ok)
    is_arc,     \* local `is_arc` of run() (selected, then effective kind)
    detected,   \* value returned by prepare_repo_paths ("unset" before)
    version,    \* local `version` of run(): how it was resolved, from what
    reference,  \* local `reference` of run(): TRUE when Some(path)
    log,        \* calls made so far by the current invocation
    runs,       \* number of invocations started so far
    synced,     \* kinds of the successful primary syncs of the target so far
    prev,       \* outcome of the invocation before, when it had the same
                \* arguments and succeeded
    cmd,        \* `setup` subcommand being run ("none" between commands)
    step,       \* position inside run_env
    elog,       \* checks made so far by run_env, with their results
    errors,     \* checks reported by error!("FAIL: ...") in run_env
    result,     \* result of the last `setup` subcommand
    home,       \* ~/.cro3/cro3.bash and ~/.bash_completion
    cmds        \* number of `setup` subcommands started so far

syncVars ==
    <<args, fs, fs0, pc, err, is_arc, detected, version, reference, log, runs,
      synced, prev>>

setupVars == <<cmd, step, elog, errors, result, home, cmds>>

vars == <<syncVars, setupVars>>

\* Number of successive invocations of the command against the same target.
MaxRuns == 2

\* Number of successive `setup` subcommands.
MaxCmds == 3

\* Number of lines ~/.bash_completion may hold before the first subcommand.
MaxLines == 2

----------------------------------------------------------------------------
(* Inputs *)

\* --version tokens: the ChromeOS alias, a ChromeOS version, an ARC branch
\* name and a token neither lookup knows.
Tokens == {"tot", "14899.0.0", "rvc", "bogus"}

\* Tokens the ChromeOS lookup can resolve (for board "eve").
CrosKnown == {"14899.0.0"}

\* Tokens the ARC branch lookup can resolve.
ArcKnown == {"rvc"}

\* The board every ChromeOS lookup is made for (sync.rs:111).
CrosBoard == "eve"

\* `version` before extract_version has returned.
NoVersion == [by |-> "unset", token |-> "unset", board |-> "none"]

\* struct Args: an Option is modelled by whether it is Some.
ArgsSet ==
    [cros : BOOLEAN, arc : BOOLEAN, reference : BOOLEAN,
     version : Tokens, force : BOOLEAN, verbose : BOOLEAN]

\* What the checks of prepare_repo_paths can observe of the target path:
\*   kind     - not there, a plain file, or a directory
\*   bp       - <repo>/Android.bp exists
\*   cv       - get_current_synced_version(repo) returns Ok
\*   listing  - read_dir(repo): no entry, some entry, or an error
NoTarget == [kind |-> "absent", bp |-> FALSE, cv |-> FALSE, listing |-> "none"]

FileTarget == [kind |-> "file", bp |-> FALSE, cv |-> FALSE, listing |-> "none"]

EmptyDir == [kind |-> "dir", bp |-> FALSE, cv |-> FALSE, listing |-> "none"]

DirStates ==
    { f \in [kind : {"dir"}, bp : BOOLEAN, cv : BOOLEAN,
             listing : {"none", "some", "unreadable"}] :
        (f.bp \/ f.cv) => f.listing # "none" }

FsStates == {NoTarget, FileTarget} \cup DirStates

----------------------------------------------------------------------------
(* The call log *)

Call(op, ok) == [op |-> op, ok |-> ok, force |-> FALSE, verbose |-> FALSE]

SyncCall(op, ok, force, verbose) ==
    [op |-> op, ok |-> ok, force |-> force, verbose |-> verbose]

Ops(l) == { l[i].op : i \in 1..Len(l) }

Called(op) == op \in Ops(log)

CalledOk(op) == \E i \in 1..Len(log) : log[i].op = op /\ log[i].ok

CalledErr(op) == \E i \in 1..Len(log) : log[i].op = op /\ ~log[i].ok

----------------------------------------------------------------------------
(* Pure parts of run() *)

\* Variant of SelectedKind: giving both --cros and --arc is read as --arc.
SelectedKind_BothIsArc(a) ==
    IF a.cros /\ ~a.arc THEN "cros"
    ELSE IF a.arc THEN "arc"
    ELSE "none"

\* sync.rs:63-67: Some("cros"/"arc") is the selected kind, None the bail!.
SelectedKind(a) ==
    IF a.cros /\ ~a.arc THEN "cros"
    ELSE IF ~a.cros /\ a.arc THEN "arc"
    ELSE "none"

\* Variant of UnwrapOr: without a detected kind the tree is taken for a
\* ChromeOS one.
UnwrapOr_NoneIsCros(det, dflt) == det = "arc"

\* Variant of UnwrapOr: the detected kind is dropped, the selection stands.
UnwrapOr_KeepSelected(det, dflt) == dflt

\* Option::unwrap_or on the result of prepare_repo_paths (sync.rs:85).
UnwrapOr(det, dflt) ==
    IF det = "none" THEN dflt ELSE det = "arc"

\* Variant of prepare_repo_paths: the synced ChromeOS version is consulted
\* before the Android.bp marker.
prepare_repo_paths_CrosFirst(f, createOk, arcVerOk) ==
    IF f.kind # "dir" THEN
        IF f.kind = "absent" /\ createOk
        THEN [res |-> "none", err |-> "none", fs |-> EmptyDir,
              calls |-> <<Call("is_dir", FALSE), Call("create_dir_all", TRUE)>>]
        ELSE [res |-> "err", err |-> "create_dir", fs |-> f,
              calls |-> <<Call("is_dir", FALSE), Call("create_dir_all", FALSE)>>]
    ELSE IF f.cv THEN
        [res |-> "cros", err |-> "none", fs |-> f,
         calls |-> <<Call("is_dir", TRUE), Call("get_current_synced_version", TRUE)>>]
    ELSE IF f.bp THEN
        IF arcVerOk
        THEN [res |-> "arc", err |-> "none", fs |-> f,
              calls |-> <<Call("is_dir", TRUE), Call("get_current_synced_version", FALSE),
                          Call("exists_android_bp", TRUE),
                          Call("get_current_synced_arc_version", TRUE)>>]
        ELSE [res |-> "err", err |-> "arc_version", fs |-> f,
              calls |-> <<Call("is_dir", TRUE), Call("get_current_synced_version", FALSE),
                          Call("exists_android_bp", TRUE),
                          Call("get_current_synced_arc_version", FALSE)>>]
    ELSE IF f.listing = "unreadable" THEN
        [res |-> "err", err |-> "read_dir", fs |-> f,
         calls |-> <<Call("is_dir", TRUE), Call("get_current_synced_version", FALSE),
                     Call("exists_android_bp", FALSE), Call("read_dir", FALSE)>>]
    ELSE IF f.listing = "some" THEN
        [res |-> "err", err |-> "ambiguous", fs |-> f,
         calls |-> <<Call("is_dir", TRUE), Call("get_current_synced_version", FALSE),
                     Call("exists_android_bp", FALSE), Call("read_dir", TRUE)>>]
    ELSE
        [res |-> "none", err |-> "none", fs |-> f,
         calls |-> <<Call("is_dir", TRUE), Call("get_current_synced_version", FALSE),
                     Call("exists_android_bp", FALSE), Call("read_dir", TRUE)>>]

\* Variant of prepare_repo_paths: the final emptiness check is missing, so a
\* directory of unknown layout is accepted like an empty one.
prepare_repo_paths_NoEmptyCheck(f, createOk, arcVerOk) ==
    IF f.kind # "dir" THEN
        IF f.kind = "absent" /\ createOk
        THEN [res |-> "none", err |-> "none", fs |-> EmptyDir,
              calls |-> <<Call("is_dir", FALSE), Call("create_dir_all", TRUE)>>]
        ELSE [res |-> "err", err |-> "create_dir", fs |-> f,
              calls |-> <<Call("is_dir", FALSE), Call("create_dir_all", FALSE)>>]
    ELSE IF f.bp THEN
        IF arcVerOk
        THEN [res |-> "arc", err |-> "none", fs |-> f,
              calls |-> <<Call("is_dir", TRUE), Call("exists_android_bp", TRUE),
                          Call("get_current_synced_arc_version", TRUE)>>]
        ELSE [res |-> "err", err |-> "arc_version", fs |-> f,
              calls |-> <<Call("is_dir", TRUE), Call("exists_android_bp", TRUE),
                          Call("get_current_synced_arc_version", FALSE)>>]
    ELSE IF f.cv THEN
        [res |-> "cros", err |-> "none", fs |-> f,
         calls |-> <<Call("is_dir", TRUE), Call("exists_android_bp", FALSE),
                     Call("get_current_synced_version", TRUE)>>]
    ELSE
        [res |-> "none", err |-> "none", fs |-> f,
         calls |-> <<Call("is_dir", TRUE), Call("exists_android_bp", FALSE),
                     Call("get_current_synced_version", FALSE)>>]

\* Variant of prepare_repo_paths: the emptiness check is made before the
\* synced ChromeOS version is read.
prepare_repo_paths_EmptinessFirst(f, createOk, arcVerOk) ==
    IF f.kind # "dir" THEN
        IF f.kind = "absent" /\ createOk
        THEN [res |-> "none", err |-> "none", fs |-> EmptyDir,
              calls |-> <<Call("is_dir", FALSE), Call("create_dir_all", TRUE)>>]
        ELSE [res |-> "err", err |-> "create_dir", fs |-> f,
              calls |-> <<Call("is_dir", FALSE), Call("create_dir_all", FALSE)>>]
    ELSE IF f.bp THEN
        IF arcVerOk
        THEN [res |-> "arc", err |-> "none", fs |-> f,
              calls |-> <<Call("is_dir", TRUE), Call("exists_android_bp", TRUE),
                          Call("get_current_synced_arc_version", TRUE)>>]
        ELSE [res |-> "err", err |-> "arc_version", fs |-> f,
              calls |-> <<Call("is_dir", TRUE), Call("exists_android_bp", TRUE),
                          Call("get_current_synced_arc_version", FALSE)>>]
    ELSE IF f.listing = "unreadable" THEN
        [res |-> "err", err |-> "read_dir", fs |-> f,
         calls |-> <<Call("is_dir", TRUE), Call("exists_android_bp", FALSE),
                     Call("read_dir", FALSE)>>]
    ELSE IF f.listing = "some" THEN
        [res |-> "err", err |-> "ambiguous", fs |-> f,
         calls |-> <<Call("is_dir", TRUE), Call("exists_android_bp", FALSE),
                     Call("read_dir", TRUE)>>]
    ELSE
        [res |-> "none", err |-> "none", fs |-> f,
         calls |-> <<Call("is_dir", TRUE), Call("exists_android_bp", FALSE),
                     Call("read_dir", TRUE)>>]

\* prepare_repo_paths (sync.rs:124-148) on target state f, given the outcome
\* of the two calls whose result the target state does not fix:
\* fs::create_dir_all and get_current_synced_arc_version.
\* res is "arc" for Some(true), "cros" for Some(false), "none" for None and
\* "err" for an Err; fs is the target state afterwards.
prepare_repo_paths(f, createOk, arcVerOk) ==
    IF f.kind # "dir" THEN
        IF f.kind = "absent" /\ createOk
        THEN [res |-> "none", err |-> "none", fs |-> EmptyDir,
              calls |-> <<Call("is_dir", FALSE), Call("create_dir_all", TRUE)>>]
        ELSE [res |-> "err", err |-> "create_dir", fs |-> f,
              calls |-> <<Call("is_dir", FALSE), Call("create_dir_all", FALSE)>>]
    ELSE IF f.bp THEN
        IF arcVerOk
        THEN [res |-> "arc", err |-> "none", fs |-> f,
              calls |-> <<Call("is_dir", TRUE), Call("exists_android_bp", TRUE),
                          Call("get_current_synced_arc_version", TRUE)>>]
        ELSE [res |-> "err", err |-> "arc_version", fs |-> f,
              calls |-> <<Call("is_dir", TRUE), Call("exists_android_bp", TRUE),
                          Call("get_current_synced_arc_version", FALSE)>>]
    ELSE IF f.cv THEN
        [res |-> "cros", err |-> "none", fs |-> f,
         calls |-> <<Call("is_dir", TRUE), Call("exists_android_bp", FALSE),
                     Call("get_current_synced_version", TRUE)>>]
    ELSE IF f.listing = "unreadable" THEN
        [res |-> "err", err |-> "read_dir", fs |-> f,
         calls |-> <<Call("is_dir", TRUE), Call("exists_android_bp", FALSE),
                     Call("get_current_synced_version", FALSE),
                     Call("read_dir", FALSE)>>]
    ELSE IF f.listing = "some" THEN
        [res |-> "err", err |-> "ambiguous", fs |-> f,
         calls |-> <<Call("is_dir", TRUE), Call("exists_android_bp", FALSE),
                     Call("get_current_synced_version", FALSE),
                     Call("read_dir", TRUE)>>]
    ELSE
        [res |-> "none", err |-> "none", fs |-> f,
         calls |-> <<Call("is_dir", TRUE), Call("exists_android_bp", FALSE),
                     Call("get_current_synced_version", FALSE),
                     Call("read_dir", TRUE)>>]

\* Effect of a successful setup_arc_repo / setup_cros_repo on the target:
\* repo metadata is written into the directory.
SetupEffect(f) ==
    [f EXCEPT !.listing = IF @ = "none" THEN "some" ELSE @]

\* Effect of a successful primary repo_sync on a tree prepared as kind arc
\* (TRUE) or cros (FALSE): the tree is then detectable as that kind.
SyncEffect(f, arc) ==
    [f EXCEPT !.bp = @ \/ arc,
              !.cv = @ \/ ~arc,
              !.listing = IF @ = "none" THEN "some" ELSE @]

\* "arc" / "cros" for the two values of is_arc.
KindName(arc) == IF arc THEN "arc" ELSE "cros"

\* `prev` when there is no earlier successful invocation with the same
\* arguments.
NoPrev ==
    [ok |-> FALSE, is_arc |-> FALSE, version |-> NoVersion,
     fs0 |-> NoTarget, fs |-> NoTarget]

----------------------------------------------------------------------------
(* The `setup` subcommand (src/cmd/setup.rs): state of the home directory *)

\* ~/.bash_completion: whether it exists, its lines, and whether its last
\* line ends with a newline.
NoCompletionFile == [present |-> FALSE, lines |-> <<>>, nl |-> TRUE]

\* A line of ~/.bash_completion is one of: a line without the text cro3, a
\* line of the user's that has the text cro3 in it, the line
\* ". ~/.cro3/cro3.bash", and that text stuck to the end of an unterminated
\* line.
UserLines == {"other", "mention"}

CompletionFiles ==
    {NoCompletionFile} \cup
    { [present |-> TRUE, lines |-> l, nl |-> n] :
        l \in UNION { [1..k -> UserLines \cup {"entry"}] : k \in 0..MaxLines },
        n \in BOOLEAN }

HomeStates == [script : BOOLEAN, completion : CompletionFiles]

\* grep 'cro3' on a line.
Mentions(line) == line \in {"mention", "entry", "glued"}

\* Exit status 0 of `grep 'cro3' ~/.bash_completion`: the file can be read
\* and one of its lines has the text.
Grep(file) ==
    file.present /\ \E i \in 1..Len(file.lines) : Mentions(file.lines[i])

\* `echo ". ~/.cro3/cro3.bash" >> ~/.bash_completion`: the file is created
\* when missing; the text goes after the last byte, so onto the last line
\* when that line has no newline.
AppendEntry(file) ==
    IF ~file.present \/ file.lines = <<>>
    THEN [present |-> TRUE, lines |-> <<"entry">>, nl |-> TRUE]
    ELSE IF file.nl
    THEN [file EXCEPT !.lines = Append(@, "entry")]
    ELSE [file EXCEPT !.lines[Len(file.lines)] = "glued", !.nl = TRUE]

\* Variant of shell_shared_setup: the entry is appended without the grep
\* guard.
shell_shared_setup_NoGuard(h, writeOk, spawnOk, appendOk) ==
    IF ~writeOk THEN [ok |-> FALSE, home |-> h]
    ELSE IF ~spawnOk THEN [ok |-> FALSE, home |-> [h EXCEPT !.script = TRUE]]
    ELSE IF appendOk
    THEN [ok |-> TRUE,
          home |-> [script |-> TRUE, completion |-> AppendEntry(h.completion)]]
    ELSE [ok |-> FALSE, home |-> [h EXCEPT !.script = TRUE]]

\* shell_shared_setup (setup.rs:105-117) on home directory h, given whether
\* writing ~/.cro3/cro3.bash, starting bash and the append succeed.
shell_shared_setup(h, writeOk, spawnOk, appendOk) ==
    IF ~writeOk THEN [ok |-> FALSE, home |-> h]
    ELSE IF ~spawnOk THEN [ok |-> FALSE, home |-> [h EXCEPT !.script = TRUE]]
    ELSE IF Grep(h.completion)
    THEN [ok |-> TRUE, home |-> [h EXCEPT !.script = TRUE]]
    ELSE IF appendOk
    THEN [ok |-> TRUE,
          home |-> [script |-> TRUE, completion |-> AppendEntry(h.completion)]]
    ELSE [ok |-> FALSE, home |-> [h EXCEPT !.script = TRUE]]

\* The checks of run_env, in the order of setup.rs:54-57.
EnvChecks == <<"repo", "gsutil", "gcloud", "gcloud auth list">>

\* What a check can end in: Ok, run_bash_command failing, or the command
\* exiting with a failure status (setup.rs:62-66).
CheckOutcomes == {"ok", "spawn_failed", "exit_status"}

\* Variant of the or_else closure: the error is reported and returned.
or_else_report_and_return(outcome) ==
    [res |-> outcome, logged |-> outcome # "ok"]

\* check().or_else(print_err_and_ignore) (setup.rs:50-57): an error is
\* reported with error!("FAIL: ...") and replaced by Ok(()).
or_else_print_err_and_ignore(outcome) ==
    [res |-> "ok", logged |-> outcome # "ok"]

\* No `setup` subcommand is running and none has run.
SetupAtRest ==
    /\ cmd = "none"
    /\ step = "idle"
    /\ elog = <<>>
    /\ errors = <<>>
    /\ result = "none"
    /\ home = [script |-> FALSE, completion |-> NoCompletionFile]
    /\ cmds = 0

----------------------------------------------------------------------------
(* Initial state: a fresh invocation with any arguments on any target *)

Init ==
    /\ args \in ArgsSet
    /\ fs \in FsStates
    /\ fs0 = fs
    /\ pc = "start"
    /\ err = "none"
    /\ is_arc = FALSE
    /\ detected = "unset"
    /\ version = NoVersion
    /\ reference = FALSE
    /\ log = <<>>
    /\ runs = 1
    /\ synced = <<>>
    /\ prev = NoPrev
    /\ SetupAtRest

Fail(e) ==
    /\ pc' = "failed"
    /\ err' = e

----------------------------------------------------------------------------
(* Steps of run() *)

\* sync.rs:63-67
SelectKind ==
    /\ pc = "start"
    /\ IF SelectedKind(args) = "none"
       THEN /\ Fail("config")
            /\ UNCHANGED is_arc
       ELSE /\ is_arc' = (SelectedKind(args) = "arc")
            /\ pc' = "extract_version"
            /\ UNCHANGED err
    /\ UNCHANGED <<args, fs, fs0, detected, version, reference, log, runs>>
    /\ UNCHANGED <<synced, prev, setupVars>>

\* Variant of ExtractVersion: "tot" is passed through before the kind is
\* looked at, so for an ARC selection too.
ExtractVersion_TotAlways ==
    /\ pc = "extract_version"
    /\ IF args.version = "tot"
       THEN /\ version' = [by |-> "tot", token |-> args.version, board |-> "none"]
            /\ pc' = "get_cros_dir"
            /\ UNCHANGED <<err, log>>
       ELSE \E ok \in {k \in BOOLEAN :
                          k => args.version \in (IF is_arc THEN ArcKnown ELSE CrosKnown)} :
            /\ log' = Append(log, Call(IF is_arc THEN "lookup_arc_version"
                                                 ELSE "lookup_full_version", ok))
            /\ IF ok
               THEN /\ version' = [by |-> IF is_arc THEN "arc_lookup" ELSE "cros_lookup",
                                   token |-> args.version,
                                   board |-> IF is_arc THEN "none" ELSE CrosBoard]
                    /\ pc' = "get_cros_dir"
                    /\ UNCHANGED err
               ELSE /\ Fail("version")
                    /\ UNCHANGED version
    /\ UNCHANGED <<args, fs, fs0, is_arc, detected, reference, runs>>
    /\ UNCHANGED <<synced, prev, setupVars>>

\* Variant of ExtractVersion: a failed lookup falls back to the raw token.
ExtractVersion_Fallback ==
    /\ pc = "extract_version"
    /\ \E ok \in {k \in BOOLEAN : k => args.version \in (IF is_arc THEN ArcKnown ELSE CrosKnown)} :
        /\ log' = Append(log, Call(IF is_arc THEN "lookup_arc_version"
                                             ELSE "lookup_full_version", ok))
        /\ version' = [by |-> IF ok THEN (IF is_arc THEN "arc_lookup" ELSE "cros_lookup")
                                    ELSE "raw",
                       token |-> args.version,
                       board |-> IF is_arc THEN "none" ELSE CrosBoard]
        /\ pc' = "get_cros_dir"
    /\ UNCHANGED <<args, fs, fs0, err, is_arc, detected, reference, runs>>
    /\ UNCHANGED <<synced, prev, setupVars>>

\* sync.rs:69 and extract_version, sync.rs:106-118.  A lookup of a known
\* token may still fail (the lookup is a remote query); an unknown token
\* always fails.
ExtractVersion ==
    /\ pc = "extract_version"
    /\ IF ~is_arc
       THEN IF args.version = "tot"
            THEN /\ version' = [by |-> "tot", token |-> args.version, board |-> "none"]
                 /\ pc' = "get_cros_dir"
                 /\ UNCHANGED <<err, log>>
            ELSE \E ok \in {k \in BOOLEAN : k => args.version \in CrosKnown} :
                 /\ log' = Append(log, Call("lookup_full_version", ok))
                 /\ IF ok
                    THEN /\ version' = [by |-> "cros_lookup", token |-> args.version,
                                         board |-> CrosBoard]
                         /\ pc' = "get_cros_dir"
                         /\ UNCHANGED err
                    ELSE /\ Fail("version")
                         /\ UNCHANGED version
       ELSE \E ok \in {k \in BOOLEAN : k => args.version \in ArcKnown} :
            /\ log' = Append(log, Call("lookup_arc_version", ok))
            /\ IF ok
               THEN /\ version' = [by |-> "arc_lookup", token |-> args.version,
                                    board |-> "none"]
                    /\ pc' = "get_cros_dir"
                    /\ UNCHANGED err
               ELSE /\ Fail("version")
                    /\ UNCHANGED version
    /\ UNCHANGED <<args, fs, fs0, is_arc, detected, reference, runs>>
    /\ UNCHANGED <<synced, prev, setupVars>>

\* sync.rs:70-74
GetCrosDir ==
    /\ pc = "get_cros_dir"
    /\ \E ok \in BOOLEAN :
        /\ log' = Append(log, Call("get_cros_dir_unchecked", ok))
        /\ IF ok
           THEN pc' = "prepare_repo_paths" /\ UNCHANGED err
           ELSE Fail("repo_dir")
    /\ UNCHANGED <<args, fs, fs0, is_arc, detected, version, reference, runs>>
    /\ UNCHANGED <<synced, prev, setupVars>>

\* Variant of PrepareRepoPaths: the target directory is created up front,
\* whatever is there, and detection follows.
PrepareRepoPaths_AlwaysCreate ==
    /\ pc = "prepare_repo_paths"
    /\ \E createOk \in BOOLEAN, arcVerOk \in BOOLEAN :
        LET r == prepare_repo_paths(fs, createOk, arcVerOk) IN
        /\ log' = log \o <<Call("create_dir_all", fs.kind # "file")>> \o
                   SelectSeq(r.calls, LAMBDA c : c.op # "create_dir_all")
        /\ fs' = r.fs
        /\ IF r.res = "err"
           THEN /\ Fail(r.err)
                /\ UNCHANGED <<is_arc, detected>>
           ELSE /\ detected' = r.res
                /\ is_arc' = UnwrapOr(r.res, is_arc)
                /\ pc' = "get_reference_repo"
                /\ UNCHANGED err
    /\ UNCHANGED <<args, fs0, version, reference, runs>>
    /\ UNCHANGED <<synced, prev, setupVars>>

\* sync.rs:85
PrepareRepoPaths ==
    /\ pc = "prepare_repo_paths"
    /\ \E createOk \in BOOLEAN, arcVerOk \in BOOLEAN :
        LET r == prepare_repo_paths(fs, createOk, arcVerOk) IN
        /\ log' = log \o r.calls
        /\ fs' = r.fs
        /\ IF r.res = "err"
           THEN /\ Fail(r.err)
                /\ UNCHANGED <<is_arc, detected>>
           ELSE /\ detected' = r.res
                /\ is_arc' = UnwrapOr(r.res, is_arc)
                /\ pc' = "get_reference_repo"
                /\ UNCHANGED err
    /\ UNCHANGED <<args, fs0, version, reference, runs>>
    /\ UNCHANGED <<synced, prev, setupVars>>

\* Variant of GetReferenceRepo: the mirror is handed on without being synced.
GetReferenceRepo_SkipMirror ==
    /\ pc = "get_reference_repo"
    /\ \E ok \in BOOLEAN :
        /\ log' = Append(log, Call("get_reference_repo", ok))
        /\ IF ok
           THEN /\ reference' = args.reference
                /\ pc' = "setup"
                /\ UNCHANGED err
           ELSE /\ Fail("reference")
                /\ UNCHANGED reference
    /\ UNCHANGED <<args, fs, fs0, is_arc, detected, version, runs>>
    /\ UNCHANGED <<synced, prev, setupVars>>

\* sync.rs:89-90
GetReferenceRepo ==
    /\ pc = "get_reference_repo"
    /\ \E ok \in BOOLEAN :
        /\ log' = Append(log, Call("get_reference_repo", ok))
        /\ IF ok
           THEN /\ reference' = args.reference
                /\ pc' = IF args.reference THEN "mirror_sync" ELSE "setup"
                /\ UNCHANGED err
           ELSE /\ Fail("reference")
                /\ UNCHANGED reference
    /\ UNCHANGED <<args, fs, fs0, is_arc, detected, version, runs>>
    /\ UNCHANGED <<synced, prev, setupVars>>

\* Variant of MirrorSync: a failed mirror sync is only logged.
MirrorSync_IgnoreFailure ==
    /\ pc = "mirror_sync"
    /\ \E ok \in BOOLEAN :
        /\ log' = Append(log, SyncCall("repo_sync_mirror", ok, args.force, args.verbose))
        /\ pc' = "setup"
    /\ UNCHANGED <<args, fs, fs0, err, is_arc, detected, version, reference, runs>>
    /\ UNCHANGED <<synced, prev, setupVars>>

\* Variant of MirrorSync: the mirror is never synced destructively.
MirrorSync_NoForce ==
    /\ pc = "mirror_sync"
    /\ \E ok \in BOOLEAN :
        /\ log' = Append(log, SyncCall("repo_sync_mirror", ok, FALSE, args.verbose))
        /\ IF ok
           THEN pc' = "setup" /\ UNCHANGED err
           ELSE Fail("mirror_sync")
    /\ UNCHANGED <<args, fs, fs0, is_arc, detected, version, reference, runs>>
    /\ UNCHANGED <<synced, prev, setupVars>>

\* sync.rs:90-93
MirrorSync ==
    /\ pc = "mirror_sync"
    /\ \E ok \in BOOLEAN :
        /\ log' = Append(log, SyncCall("repo_sync_mirror", ok, args.force, args.verbose))
        /\ IF ok
           THEN pc' = "setup" /\ UNCHANGED err
           ELSE Fail("mirror_sync")
    /\ UNCHANGED <<args, fs, fs0, is_arc, detected, version, reference, runs>>
    /\ UNCHANGED <<synced, prev, setupVars>>

\* Variant of Setup: the result of the preparation routine is dropped.
Setup_IgnoreFailure ==
    /\ pc = "setup"
    /\ \E ok \in BOOLEAN :
        /\ log' = Append(log, Call(IF is_arc THEN "setup_arc_repo" ELSE "setup_cros_repo", ok))
        /\ fs' = IF ok THEN SetupEffect(fs) ELSE fs
        /\ pc' = "repo_sync"
    /\ UNCHANGED <<args, fs0, err, is_arc, detected, version, reference, runs>>
    /\ UNCHANGED <<synced, prev, setupVars>>

\* sync.rs:95-99
Setup ==
    /\ pc = "setup"
    /\ \E ok \in BOOLEAN :
        /\ log' = Append(log, Call(IF is_arc THEN "setup_arc_repo" ELSE "setup_cros_repo", ok))
        /\ IF ok
           THEN /\ fs' = SetupEffect(fs)
                /\ pc' = "repo_sync"
                /\ UNCHANGED err
           ELSE /\ Fail("setup")
                /\ UNCHANGED fs
    /\ UNCHANGED <<args, fs0, is_arc, detected, version, reference, runs>>
    /\ UNCHANGED <<synced, prev, setupVars>>

\* Variant of PrimarySync: a failed sync is tried again.
PrimarySync_Retry ==
    /\ pc = "repo_sync"
    /\ \E ok \in BOOLEAN :
        /\ log' = Append(log, SyncCall("repo_sync", ok, args.force, args.verbose))
        /\ IF ok
           THEN /\ fs' = SyncEffect(fs, is_arc)
                /\ synced' = Append(synced, KindName(is_arc))
                /\ pc' = "done"
           ELSE /\ pc' = "repo_sync"
                /\ UNCHANGED <<fs, synced>>
    /\ UNCHANGED <<args, fs0, err, is_arc, detected, version, reference, runs>>
    /\ UNCHANGED <<prev, setupVars>>

\* sync.rs:101
PrimarySync ==
    /\ pc = "repo_sync"
    /\ \E ok \in BOOLEAN :
        /\ log' = Append(log, SyncCall("repo_sync", ok, args.force, args.verbose))
        /\ IF ok
           THEN /\ fs' = SyncEffect(fs, is_arc)
                /\ synced' = Append(synced, KindName(is_arc))
                /\ pc' = "done"
                /\ UNCHANGED err
           ELSE /\ Fail("repo_sync")
                /\ UNCHANGED <<fs, synced>>
    /\ UNCHANGED <<args, fs0, is_arc, detected, version, reference, runs>>
    /\ UNCHANGED <<prev, setupVars>>

\* The command is invoked again on the same target, with any arguments.
\* When the arguments are those of the invocation that just succeeded, its
\* outcome is kept in `prev`.
NewRun ==
    /\ pc \in {"done", "failed"}
    /\ runs < MaxRuns
    /\ runs' = runs + 1
    /\ args' \in ArgsSet
    /\ fs0' = fs
    /\ pc' = "start"
    /\ err' = "none"
    /\ is_arc' = FALSE
    /\ detected' = "unset"
    /\ version' = NoVersion
    /\ reference' = FALSE
    /\ log' = <<>>
    /\ prev' = IF args' = args /\ pc = "done"
               THEN [ok |-> TRUE, is_arc |-> is_arc, version |-> version,
                     fs0 |-> fs0, fs |-> fs]
               ELSE NoPrev
    /\ UNCHANGED <<fs, synced, setupVars>>

Next ==
    \/ SelectKind
    \/ ExtractVersion
    \/ GetCrosDir
    \/ PrepareRepoPaths
    \/ GetReferenceRepo
    \/ MirrorSync
    \/ Setup
    \/ PrimarySync
    \/ NewRun

Spec == Init /\ [][Next]_vars

----------------------------------------------------------------------------
(* The `setup` subcommands (src/cmd/setup.rs) *)

\* No `sync` invocation is under way.
SyncAtRest ==
    /\ args = [cros |-> FALSE, arc |-> FALSE, reference |-> FALSE,
               version |-> "tot", force |-> FALSE, verbose |-> FALSE]
    /\ fs = NoTarget
    /\ fs0 = NoTarget
    /\ pc = "idle"
    /\ err = "none"
    /\ is_arc = FALSE
    /\ detected = "unset"
    /\ version = NoVersion
    /\ reference = FALSE
    /\ log = <<>>
    /\ runs = 0
    /\ synced = <<>>
    /\ prev = NoPrev

\* Any home directory, no subcommand run yet.
InitSetup ==
    /\ SyncAtRest
    /\ cmd = "none"
    /\ step = "idle"
    /\ elog = <<>>
    /\ errors = <<>>
    /\ result = "none"
    /\ home \in HomeStates
    /\ cmds = 0

\* setup.rs:36-38 and 48-49: `setup env` starts.
StartEnv ==
    /\ step = "idle"
    /\ cmds < MaxCmds
    /\ cmds' = cmds + 1
    /\ cmd' = "env"
    /\ step' = "check_depot_tools"
    /\ elog' = <<>>
    /\ errors' = <<>>
    /\ result' = "none"
    /\ UNCHANGED <<home, syncVars>>

\* One line `check().or_else(print_err_and_ignore)?;` of run_env: the check
\* is made, a failure is reported, and `?` returns whatever error is left;
\* after the last line run_env returns Ok(()).
EnvStep(check, nxt) ==
    /\ cmd = "env"
    /\ \E o \in CheckOutcomes :
        LET r == or_else_print_err_and_ignore(o) IN
        /\ elog' = Append(elog, [check |-> check, outcome |-> o])
        /\ errors' = IF r.logged THEN Append(errors, check) ELSE errors
        /\ IF r.res # "ok"
           THEN step' = "idle" /\ result' = "err"
           ELSE IF nxt = "return"
           THEN step' = "idle" /\ result' = "ok"
           ELSE step' = nxt /\ UNCHANGED result
    /\ UNCHANGED <<cmd, home, cmds, syncVars>>

\* setup.rs:54
CheckDepotTools ==
    /\ step = "check_depot_tools"
    /\ EnvStep("repo", "check_gsutil")

\* setup.rs:55
CheckGsutil ==
    /\ step = "check_gsutil"
    /\ EnvStep("gsutil", "check_gcloud")

\* setup.rs:56
CheckGcloud ==
    /\ step = "check_gcloud"
    /\ EnvStep("gcloud", "check_gcloud_auth_list")

\* setup.rs:57-58
CheckGcloudAuthList ==
    /\ step = "check_gcloud_auth_list"
    /\ EnvStep("gcloud auth list", "return")

\* A completion subcommand: shell_shared_setup()? and then only warn! lines.
Completion(name) ==
    /\ cmds < MaxCmds
    /\ cmds' = cmds + 1
    /\ cmd' = name
    /\ \E writeOk \in BOOLEAN, spawnOk \in BOOLEAN, appendOk \in BOOLEAN :
        LET r == shell_shared_setup(home, writeOk, spawnOk, appendOk) IN
        /\ home' = r.home
        /\ result' = IF r.ok THEN "ok" ELSE "err"
    /\ elog' = <<>>
    /\ errors' = <<>>
    /\ UNCHANGED <<step, syncVars>>

\* setup.rs:123-134
RunBashCompletion ==
    /\ step = "idle"
    /\ Completion("bash-completion")

\* setup.rs:140-151
RunZshCompletion ==
    /\ step = "idle"
    /\ Completion("zsh-completion")

NextSetup ==
    \/ StartEnv
    \/ CheckDepotTools
    \/ CheckGsutil
    \/ CheckGcloud
    \/ CheckGcloudAuthList
    \/ RunBashCompletion
    \/ RunZshCompletion

SpecSetup == InitSetup /\ [][NextSetup]_vars

----------------------------------------------------------------------------
(* Vocabulary of the properties *)

SetupOps == {"setup_arc_repo", "setup_cros_repo"}

\* Calls that act on the primary target after detection.
PrimaryOps == SetupOps \cup {"repo_sync"}

\* Every sync attempt of a run: mirror sync, preparation, primary sync.
SyncOps == PrimaryOps \cup {"repo_sync_mirror"}

\* Calls whose negative answer the code branches on instead of returning it.
Probes == {"is_dir", "exists_android_bp", "get_current_synced_version"}

\* The classification the type detector gives to a target state.
Existing(f) ==
    IF f.kind = "dir" /\ f.bp THEN "arc"
    ELSE IF f.kind = "dir" /\ f.cv THEN "cros"
    ELSE "none"

Ambiguous(f) ==
    f.kind = "dir" /\ ~f.bp /\ ~f.cv /\ f.listing = "some"

\* The target is an existing checkout of the kind the caller did not select.
Mismatch ==
    /\ SelectedKind(args) # "none"
    /\ Existing(fs0) # "none"
    /\ Existing(fs0) # SelectedKind(args)

\* Some call of the log with an op in S comes before position i and succeeded.
OkBefore(S, i) == \E j \in 1..(i - 1) : log[j].op \in S /\ log[j].ok

\* Position of a call in the order in which run() makes its calls.
Rank(op) ==
    CASE op \in {"lookup_full_version", "lookup_arc_version"} -> 1
      [] op = "get_cros_dir_unchecked" -> 2
      [] op = "is_dir" -> 3
      [] op \in {"create_dir_all", "exists_android_bp"} -> 4
      [] op \in {"get_current_synced_arc_version", "get_current_synced_version"} -> 5
      [] op = "read_dir" -> 6
      [] op = "get_reference_repo" -> 7
      [] op = "repo_sync_mirror" -> 8
      [] op \in SetupOps -> 9
      [] op = "repo_sync" -> 10

----------------------------------------------------------------------------
(* Properties *)

\* C1 (as stated): when the mirror sync of a run fails, the run fails, no
\* preparation and no primary sync is invoked, and the target is exactly as
\* it was before the run.
C1_TargetUntouched ==
    CalledErr("repo_sync_mirror") =>
        /\ pc = "failed"
        /\ Ops(log) \cap PrimaryOps = {}
        /\ fs = fs0

\* C1 (amended): when the mirror sync of a run fails, the run fails with the
\* mirror-sync error, no preparation and no primary sync is invoked, and the
\* target is as it was before the run except that a target directory that
\* did not exist has been created, empty.
C1_MirrorFailureStopsRun ==
    CalledErr("repo_sync_mirror") =>
        /\ pc = "failed"
        /\ err = "mirror_sync"
        /\ Ops(log) \cap PrimaryOps = {}
        /\ \/ fs = fs0
           \/ fs0.kind = "absent" /\ fs = EmptyDir

\* C1 witness: a run on a missing target whose mirror sync failed.
C1_Witness ==
    /\ CalledErr("repo_sync_mirror")
    /\ reference
    /\ fs0.kind = "absent"
    /\ pc = "failed"

\* C2 (as stated): with a reference mirror given, every touch of the target
\* (directory creation, preparation, primary sync) comes after a successful
\* mirror sync.
C2_MirrorBeforeAnyTouch ==
    args.reference =>
        \A i \in 1..Len(log) :
            log[i].op \in PrimaryOps \cup {"create_dir_all"} =>
                OkBefore({"repo_sync_mirror"}, i)

\* C2 (amended): with a reference mirror given, kind-specific preparation
\* and the primary sync come only after a successful mirror sync; the
\* creation of a missing target directory comes before the mirror sync.
C2_MirrorBeforePreparation ==
    args.reference =>
        \A i \in 1..Len(log) :
            /\ log[i].op \in PrimaryOps => OkBefore({"repo_sync_mirror"}, i)
            /\ log[i].op = "repo_sync_mirror" =>
                   \A j \in 1..Len(log) : log[j].op = "create_dir_all" => j < i

\* C2 witness: a run with a mirror that created its target and got as far as
\* a successful primary sync.
C2_Witness ==
    /\ args.reference
    /\ CalledOk("create_dir_all")
    /\ CalledOk("repo_sync_mirror")
    /\ CalledOk("repo_sync")

\* C3 (as stated): when the target is an existing checkout of the kind the
\* caller did not select, the run fails and the tree is neither prepared nor
\* synced.
C3_MismatchIsFatal ==
    Mismatch =>
        /\ pc # "done"
        /\ Ops(log) \cap PrimaryOps = {}

\* C3 (amended): when the target is an existing checkout of the kind the
\* caller did not select, the mismatch is no error of its own: once detection
\* has succeeded the detected kind replaces the selection, the tree is
\* prepared only by the detected kind's routine, never by the selected
\* kind's, and the run goes on to the primary sync.
C3_MismatchFollowsDetected ==
    Mismatch =>
        /\ detected # "unset" =>
               /\ detected = Existing(fs0)
               /\ is_arc = (Existing(fs0) = "arc")
        /\ Ops(log) \cap SetupOps \subseteq
               {IF Existing(fs0) = "arc" THEN "setup_arc_repo" ELSE "setup_cros_repo"}
        /\ Called("repo_sync") => detected = Existing(fs0)

\* C3 witness: a run with --cros on an existing ARC tree that completed.
C3_Witness ==
    /\ Mismatch
    /\ SelectedKind(args) = "cros"
    /\ pc = "done"
    /\ CalledOk("setup_arc_repo")

\* C4: on a target detected as an existing checkout the detected kind is
\* the effective kind whatever was selected: after detection of ExistingArc
\* only the Arc preparation routine is ever invoked, after detection of
\* ExistingCros only the Cros one.
C4_DetectedKindIsEffective ==
    /\ Existing(fs0) = "arc" =>
           /\ detected \in {"unset", "arc"}
           /\ detected = "arc" => is_arc
           /\ ~Called("setup_cros_repo")
           /\ pc \in {"repo_sync", "done"} => Called("setup_arc_repo")
    /\ Existing(fs0) = "cros" =>
           /\ detected \in {"unset", "cros"}
           /\ detected = "cros" => ~is_arc
           /\ ~Called("setup_arc_repo")
           /\ pc \in {"repo_sync", "done"} => Called("setup_cros_repo")

\* C4 witness: a tree holding both markers, selected as --cros, prepared as
\* Arc.
C4_Witness ==
    /\ fs0.kind = "dir" /\ fs0.bp /\ fs0.cv
    /\ args.cros /\ ~args.arc
    /\ CalledOk("setup_arc_repo")

\* C5 (as stated): on a non-empty directory with neither marker every run
\* fails with the ambiguous-tree error and makes no sync attempt.
C5_AlwaysAmbiguousError ==
    Ambiguous(fs0) =>
        /\ pc # "done"
        /\ pc = "failed" => err = "ambiguous"
        /\ Ops(log) \cap SyncOps = {}

\* C5 (amended): on a non-empty directory with neither marker every run
\* fails and makes no sync attempt (no mirror sync, no preparation, no
\* primary sync) and leaves the target unchanged; the failure is the
\* ambiguous-tree error whenever the run gets as far as type detection, and
\* otherwise the error of the earlier step that failed (configuration,
\* version resolution or target path resolution).
C5_AmbiguousNeverSynced ==
    Ambiguous(fs0) =>
        /\ pc \in {"start", "extract_version", "get_cros_dir",
                   "prepare_repo_paths", "failed"}
        /\ Ops(log) \cap SyncOps = {}
        /\ ~Called("get_reference_repo")
        /\ fs = fs0
        /\ pc = "failed" =>
               /\ err \in {"config", "version", "repo_dir", "ambiguous"}
               /\ Called("is_dir") <=> err = "ambiguous"

\* C5 witness: a run that reached detection on such a directory.
C5_Witness ==
    /\ Ambiguous(fs0)
    /\ err = "ambiguous"
    /\ args.reference

\* C6: a run gets past kind selection only with exactly one of --cros and
\* --arc; with both or neither it fails with the configuration error and has
\* made no call at all (no lookup, no filesystem access, no process).
C6_ConfigErrorBeforeAnyIO ==
    /\ (args.cros = args.arc) =>
           /\ pc \in {"start", "failed"}
           /\ log = <<>>
           /\ fs = fs0
           /\ pc = "failed" => err = "config"
    /\ (args.cros # args.arc) => err # "config"

\* C6 witness: both options given, the run has failed.
C6_Witness ==
    /\ args.cros /\ args.arc
    /\ pc = "failed"
    /\ err = "config"

\* C7: a failed version lookup fails the run (no fallback), and at that
\* point the lookup is the only call made: the target is unchanged, nothing
\* was created, prepared or synced.
C7_VersionErrorBeforeMutation ==
    /\ (CalledErr("lookup_full_version") \/ CalledErr("lookup_arc_version")) =>
           /\ pc = "failed"
           /\ err = "version"
           /\ version.by = "unset"
    /\ err = "version" =>
           /\ Len(log) = 1
           /\ log[1].op \in {"lookup_full_version", "lookup_arc_version"}
           /\ fs = fs0

\* C7 witness: the lookup failed for a target that does not exist yet.
C7_Witness ==
    /\ err = "version"
    /\ fs0.kind = "absent"
    /\ fs.kind = "absent"

\* C8 (state part): a call that returned an error is the last call of the
\* run and the run has failed; a failed run carries an error; a run that
\* reports success has had every call succeed.
C8_FailedCallIsLast ==
    /\ \A i \in 1..Len(log) :
           (~log[i].ok /\ log[i].op \notin Probes) =>
               /\ i = Len(log)
               /\ pc = "failed"
               /\ err # "none"
    /\ (pc = "failed") <=> (err # "none")
    /\ pc = "done" =>
           \A i \in 1..Len(log) : log[i].op \notin Probes => log[i].ok

\* C8 (step part): Failed is absorbing: the only step out of it is a new
\* invocation, and no call is added to a failed run.
C8_FailedIsAbsorbing ==
    [][pc = "failed" => (pc' = "start" /\ runs' = runs + 1 /\ log' = <<>>)]_vars

\* C8: every error aborts the remaining steps immediately.
C8_ErrorsAbort == []C8_FailedCallIsLast /\ C8_FailedIsAbsorbing

\* C8 witness: a preparation routine failed after a successful mirror sync.
C8_Witness ==
    /\ CalledOk("repo_sync_mirror")
    /\ (CalledErr("setup_arc_repo") \/ CalledErr("setup_cros_repo"))
    /\ pc = "failed"

\* C9: the calls of a run come in the fixed order version lookup, target
\* path, type detection, reference lookup, mirror sync, preparation, primary
\* sync; no step is entered twice, so each sync is invoked at most once and
\* a failed one is not retried.
C9_FixedOrderNoRetry ==
    /\ \A i, j \in 1..Len(log) : i < j => Rank(log[i].op) < Rank(log[j].op)
    /\ \A op \in {"repo_sync_mirror", "repo_sync"} :
           Cardinality({i \in 1..Len(log) : log[i].op = op}) <= 1
    /\ version.by = "unset" => ~Called("is_dir")
    /\ detected = "unset" => Ops(log) \cap SyncOps = {}

\* C9 witness: a run that made every kind of step and whose primary sync
\* failed.
C9_Witness ==
    /\ Called("lookup_arc_version")
    /\ Called("create_dir_all")
    /\ Called("repo_sync_mirror")
    /\ Called("setup_arc_repo")
    /\ CalledErr("repo_sync")
    /\ pc = "failed"

\* C10: every repo_sync of a run, mirror or primary, is given the caller's
\* force and verbose values unchanged.
C10_ForcePassedThrough ==
    \A i \in 1..Len(log) :
        log[i].op \in {"repo_sync_mirror", "repo_sync"} =>
            /\ log[i].force = args.force
            /\ log[i].verbose = args.verbose

\* C10 witness: a forced, non-verbose run that synced the mirror and the
\* target.
C10_Witness ==
    /\ args.force /\ ~args.verbose
    /\ Called("repo_sync_mirror")
    /\ Called("repo_sync")

\* The run has got past version resolution (or failed in it).
PastResolution == pc \notin {"start", "extract_version"}

\* C11: for a ChromeOS selection "tot" is returned unchanged without any
\* lookup and every other token goes through the ChromeOS lookup for board
\* "eve", an unknown token failing the run; for an ARC selection every token,
\* "tot" included, goes through the ARC lookup only, whose failure fails the
\* run.
C11_ResolutionByKind ==
    /\ ~Called("lookup_full_version") \/ ~Called("lookup_arc_version")
    /\ (SelectedKind(args) = "cros" /\ args.version = "tot") =>
           /\ ~Called("lookup_full_version") /\ ~Called("lookup_arc_version")
           /\ err # "version"
           /\ PastResolution =>
                  version = [by |-> "tot", token |-> "tot", board |-> "none"]
    /\ (SelectedKind(args) = "cros" /\ args.version # "tot" /\ PastResolution) =>
           /\ Called("lookup_full_version") /\ ~Called("lookup_arc_version")
           /\ args.version \notin CrosKnown => CalledErr("lookup_full_version")
           /\ IF CalledOk("lookup_full_version")
              THEN version = [by |-> "cros_lookup", token |-> args.version,
                              board |-> "eve"]
              ELSE pc = "failed" /\ err = "version" /\ version = NoVersion
    /\ (SelectedKind(args) = "arc" /\ PastResolution) =>
           /\ Called("lookup_arc_version") /\ ~Called("lookup_full_version")
           /\ args.version \notin ArcKnown => CalledErr("lookup_arc_version")
           /\ IF CalledOk("lookup_arc_version")
              THEN version = [by |-> "arc_lookup", token |-> args.version,
                              board |-> "none"]
              ELSE pc = "failed" /\ err = "version" /\ version = NoVersion

\* C11 witness: --arc with the token "tot": the ARC lookup was asked, and
\* it failed the run.
C11_Witness ==
    /\ SelectedKind(args) = "arc"
    /\ args.version = "tot"
    /\ CalledErr("lookup_arc_version")
    /\ err = "version"

\* C12: on a target that does not exist or is an empty directory the
\* detector reports no kind and the run goes on with the selected kind; a
\* missing target is created first, for an empty one nothing is created.
C12_NoKindKeepsSelection ==
    (fs0.kind = "absent" \/ fs0 = EmptyDir) =>
        /\ detected \in {"unset", "none"}
        /\ detected = "none" =>
               /\ is_arc = (SelectedKind(args) = "arc")
               /\ fs.kind = "dir"
               /\ CalledOk("create_dir_all") <=> fs0.kind = "absent"
        /\ Called("create_dir_all") => fs0.kind = "absent"
        /\ \A i \in 1..Len(log) :
               log[i].op \in SetupOps =>
                   /\ log[i].op = (IF SelectedKind(args) = "arc"
                                   THEN "setup_arc_repo" ELSE "setup_cros_repo")
                   /\ fs0.kind = "absent" => OkBefore({"create_dir_all"}, i)

\* C12 witness: --arc on an empty directory, prepared as Arc.
C12_Witness ==
    /\ fs0 = EmptyDir
    /\ SelectedKind(args) = "arc"
    /\ detected = "none"
    /\ CalledOk("setup_arc_repo")

\* C13 (as stated): when the Android.bp marker is there but the query for
\* the synced ARC version fails, the tree is still classified ExistingArc and
\* the run does not fail on it.
C13_ArcVersionFailsSoftly ==
    CalledErr("get_current_synced_arc_version") =>
        /\ detected = "arc"
        /\ err = "none"

\* The preparation routine of a kind.
SetupOf(kind) == IF kind = "arc" THEN "setup_arc_repo" ELSE "setup_cros_repo"

\* C14: over successive runs on one target (a successful sync of kind K
\* leaving the tree detectable as K), once a run has synced the target the
\* tree has exactly that kind: every later successful sync is of that kind
\* and no run prepares or syncs it as the other kind, whatever it selects.
C14_KindNeverFlips ==
    Len(synced) >= 1 =>
        /\ synced[1] \in {"arc", "cros"}
        /\ \A i \in 1..Len(synced) : synced[i] = synced[1]
        /\ Existing(fs) = synced[1]
        /\ Ops(log) \cap SetupOps \subseteq {SetupOf(synced[1])}
        /\ pc \in {"mirror_sync", "setup", "repo_sync", "done"} =>
               KindName(is_arc) = synced[1]

\* C14 witness: the second successful sync of the target, made by a run
\* that selected the other kind.
C14_Witness ==
    /\ Len(synced) = 2
    /\ SelectedKind(args) \in {"arc", "cros"}
    /\ SelectedKind(args) # synced[2]
    /\ pc = "done"

\* C15: when a run that succeeded is repeated with the same arguments, the
\* repetition fails only if one of its external calls fails; it takes the
\* same effective kind and the same resolved version, creates nothing, and
\* on success leaves the target in the state the first run left it in.
C15_Idempotent ==
    prev.ok =>
        /\ fs0 = prev.fs
        /\ pc = "failed" =>
               /\ Len(log) >= 1
               /\ ~log[Len(log)].ok
               /\ log[Len(log)].op \notin Probes \cup {"create_dir_all", "read_dir"}
        /\ detected # "unset" => detected = KindName(prev.is_arc)
        /\ version.by # "unset" => version = prev.version
        /\ pc = "done" =>
               /\ is_arc = prev.is_arc
               /\ version = prev.version
               /\ fs = prev.fs

\* C15 witness: both runs were made on a tree that was already a checkout,
\* and both succeeded.
C15_Witness ==
    /\ prev.ok
    /\ Existing(prev.fs0) # "none"
    /\ pc = "done"

\* C16 (as stated): the version given to a preparation routine was resolved
\* by the resolver of that routine's kind: Arc preparation gets a version
\* from the ARC lookup, Cros preparation gets "tot" or a version from the
\* ChromeOS lookup.
C16_VersionOfSameKind ==
    /\ Called("setup_arc_repo") => version.by = "arc_lookup"
    /\ Called("setup_cros_repo") => version.by \in {"tot", "cros_lookup"}

\* Calls of the detector that come after the is_dir test.
DetectorProbes ==
    {"exists_android_bp", "get_current_synced_arc_version",
     "get_current_synced_version", "read_dir"}

C18_CreateOnlyWhenMissing ==
    /\ Cardinality({i \in 1..Len(log) : log[i].op = "create_dir_all"}) <= 1
    /\ Called("create_dir_all") => fs0.kind # "dir"

\* C18 (step part): the detection step changes the target only by creating
\* the directory of a target that did not exist; it leaves every existing
\* directory, whatever its classification, as it is.
C18_DetectionStepFrame ==
    [][pc = "prepare_repo_paths" =>
          \/ fs' = fs
          \/ fs.kind = "absent" /\ fs' = EmptyDir]_vars

\* C18: type detection mutates the filesystem in at most one way.
C18_DetectionFrame == []C18_CreateOnlyWhenMissing /\ C18_DetectionStepFrame

\* C18 witness: detection has just created a missing target.
C18_Witness ==
    /\ fs0.kind = "absent"
    /\ CalledOk("create_dir_all")
    /\ fs = EmptyDir
    /\ pc = "get_reference_repo"

----------------------------------------------------------------------------
(* Properties of the `setup` subcommands, checked under SpecSetup *)

\* The checks of elog that did not end in Ok, by name and in order.
FailedChecks ==
    LET bad == SelectSeq(elog, LAMBDA e : e.outcome # "ok")
    IN  [i \in 1..Len(bad) |-> bad[i].check]

\* C19: run_env makes its four checks in the order repo, gsutil, gcloud,
\* gcloud auth list, whatever the earlier ones ended in; a failing check is
\* only reported; run_env returns Ok for every combination of outcomes.
C19_EnvLogAndContinue ==
    cmd = "env" =>
        /\ Len(elog) <= Len(EnvChecks)
        /\ \A i \in 1..Len(elog) : elog[i].check = EnvChecks[i]
        /\ errors = FailedChecks
        /\ result # "err"
        /\ step = "idle" => (Len(elog) = Len(EnvChecks) /\ result = "ok")
        /\ step # "idle" => result = "none"

\* C19 witness: every one of the four checks failed and run_env returned
\* Ok.
C19_Witness ==
    /\ cmd = "env"
    /\ step = "idle"
    /\ result = "ok"
    /\ Len(elog) = Len(EnvChecks)
    /\ \A i \in 1..Len(elog) : elog[i].outcome # "ok"

\* A completion subcommand has just returned Ok.
CompletionSucceeded ==
    cmd \in {"bash-completion", "zsh-completion"} /\ result = "ok"

C20_MentionAfterSuccess ==
    CompletionSucceeded => (home.script /\ Grep(home.completion))

\* C20 (amended, step part): ~/.bash_completion changes only by the append
\* of the entry, and only when it is missing or no line of it has the text
\* cro3; once a line has it, no subcommand changes the file again.
C20_AppendOnlyWithoutMention ==
    [][/\ Grep(home.completion) => home'.completion = home.completion
       /\ home'.completion # home.completion =>
              /\ ~Grep(home.completion)
              /\ Grep(home'.completion)
              /\ home'.completion.present
              /\ Len(home'.completion.lines) <= Len(home.completion.lines) + 1
              /\ CompletionSucceeded']_vars

====
